---- MODULE Spec2Model ----
(***************************************************************************)
(* Model of src/index.ts: the Cloudflare worker that looks a member up on  *)
(* uschess.org, scrapes seven fields from the page and derives an          *)
(* eligibility verdict.                                                    *)
(*                                                                         *)
(* Representation of JavaScript values:                                    *)
(*   - a string is a sequence of one-character strings ('' is << >>);      *)
(*   - undefined and null are the one-element tuples Undefined and Null,   *)
(*     whose element is not a character, so they equal no string;          *)
(*   - a number is <<"num", n>>, NaN is the one-element tuple NaN.         *)
(* Instants are counted in days since 1970-01-01 UTC (the code counts      *)
(* milliseconds; every instant of the model is a whole number of days).    *)
(***************************************************************************)
EXTENDS Integers, Sequences, FiniteSets, TLC

VARIABLES
    pc,           \* position of the running call
    id,           \* fetch: url.searchParams.get('memberId')
    htmlContent,  \* getMemberInformation: the body read from the upstream
    chessInfo,    \* the record extractChessInfo returned
    playerStatus, \* getMemberInformation: { expired, expiresIn }
    now,          \* the two clock readings of lines 133 and 134
    eligibility,  \* the result of determineEligibility
    otherInfo,    \* a second record, for comparing two evaluations
    otherEligibility, \* determineEligibility on otherInfo
    response,     \* the Response the fetch handler resolved with
    outcome,      \* how the handler's promise settled
    performed,    \* the steps the current request has run
    thrown        \* the message of the exception raised in the request

vars == <<pc, id, htmlContent, chessInfo, playerStatus, now, eligibility,
          otherInfo, otherEligibility, response, outcome, performed, thrown>>

(***************************************************************************)
(* JavaScript values and string primitives                                 *)
(***************************************************************************)
Undefined == <<"undefined">>
Null == <<"null">>
NaN == <<"NaN">>
Num(n) == <<"num", n>>
IsNum(v) == Len(v) = 2 /\ v[1] = "num"

\* the characters String.prototype.trim strips (those the pages here use)
WhiteSpace == {" ", "\t", "\n", "\r"}

\* truthiness of a string or undefined/null: only '' , undefined, null are falsy
Truthy(v) == v # Undefined /\ v # Null /\ v # << >>

RECURSIVE TrimStart(_)
TrimStart(s) ==
    IF s # << >> /\ Head(s) \in WhiteSpace THEN TrimStart(Tail(s)) ELSE s

RECURSIVE TrimEnd(_)
TrimEnd(s) ==
    IF s # << >> /\ s[Len(s)] \in WhiteSpace
    THEN TrimEnd(SubSeq(s, 1, Len(s) - 1)) ELSE s

\* String.prototype.trim
Trim(s) == TrimEnd(TrimStart(s))

\* the positions at which sub occurs in s
Occurrences(s, sub) ==
    {i \in 1..(Len(s) - Len(sub) + 1) : SubSeq(s, i, i + Len(sub) - 1) = sub}

\* String.prototype.includes
Includes(s, sub) == Occurrences(s, sub) # {}

Min(S) == CHOOSE x \in S : \A y \in S : x <= y

\* String.prototype.split with a non-empty separator: cuts at EVERY occurrence
RECURSIVE Split(_, _)
Split(s, sep) ==
    IF Occurrences(s, sep) = {} THEN <<s>>
    ELSE LET i == Min(Occurrences(s, sep))
         IN  <<SubSeq(s, 1, i - 1)>> \o
             Split(SubSeq(s, i + Len(sep), Len(s)), sep)

\* array[i] with a zero-based index: undefined past the end
At(arr, i) == IF i + 1 <= Len(arr) THEN arr[i + 1] ELSE Undefined

\* a variant of Or without the fallback
OrBug(a, b) == a
\* a || b
Or(a, b) == IF Truthy(a) THEN a ELSE b

(***************************************************************************)
(* Text constants of the source                                            *)
(***************************************************************************)
Sentinel == <<"-", "-">>
ColonSpace == <<":", " ">>
Space == <<" ">>
NewLine == <<"\n">>
ErrorText == <<"E", "r", "r", "o", "r">>
CouldNotText ==
    <<"C", "o", "u", "l", "d", " ", "n", "o", "t", " ",
      "r", "e", "t", "r", "i", "e", "v", "e", " ", "d", "a", "t", "a">>
RegularRating ==
    <<"R", "e", "g", "u", "l", "a", "r", " ", "R", "a", "t", "i", "n", "g">>
QuickRating ==
    <<"Q", "u", "i", "c", "k", " ", "R", "a", "t", "i", "n", "g">>
BlitzRating ==
    <<"B", "l", "i", "t", "z", " ", "R", "a", "t", "i", "n", "g">>
RatingLabels == {RegularRating, QuickRating, BlitzRating}

EmptyUSChessInfo ==
    [playerName |-> Sentinel, playerId |-> Sentinel, playerState |-> Sentinel,
     regularRating |-> Sentinel, quickRating |-> Sentinel,
     blitzRating |-> Sentinel, expirationDt |-> Sentinel]

Fields == {"playerName", "playerId", "playerState", "regularRating",
           "quickRating", "blitzRating", "expirationDt"}

(***************************************************************************)
(* extractChessInfo.  A page is what the cheerio queries of the function   *)
(* read from the parsed document:                                          *)
(*   banner    $('font[color="A00000"] b').text()                          *)
(*   header    $('font[size="+1"] b').text()                               *)
(*   rows      the tr elements in document order, each with the number of  *)
(*             its td cells, the text of cells[0] and the text of the b    *)
(*             elements of cells[1]                                        *)
(*   state     $('td:contains("State")').next('td').find('b').text()       *)
(*   expiry    $('td:contains("Expiration Dt.")').next('td').find('b')     *)
(*             .text()                                                     *)
(***************************************************************************)
\* a variant of IsInvalid that looks for 'Error' only
IsInvalidBug(errorMessage) == Includes(errorMessage, ErrorText)
\* line 197
IsInvalid(errorMessage) ==
    Includes(errorMessage, ErrorText) \/ Includes(errorMessage, CouldNotText)

\* the callback of $('tr').each, applied to one row
RatingsAfterRow(ratings, row) ==
    IF row.cells >= 2 /\ Trim(row.label) \in RatingLabels
    THEN [ratings EXCEPT ![Trim(row.label)] = At(Split(Trim(row.bold), Space), 0)]
    ELSE ratings

\* the ratings object after $('tr').each has visited every row
RECURSIVE ScanRows(_, _)
ScanRows(ratings, rows) ==
    IF rows = << >> THEN ratings
    ELSE ScanRows(RatingsAfterRow(ratings, Head(rows)), Tail(rows))

NoRatings == [l \in RatingLabels |-> Undefined]

extractChessInfo(page) ==
    LET errorMessage == Trim(page.banner)
        idAndName == Split(page.header, ColonSpace)
        playerIdText == At(idAndName, 0)
        fullName == At(idAndName, 1)
        ratings == ScanRows(NoRatings, page.rows)
        stateFields == Split(Trim(page.state), NewLine)
        state == At(stateFields, 1)
        expirationDate == Trim(page.expiry)
    IN  IF IsInvalid(errorMessage) THEN EmptyUSChessInfo
        ELSE [playerName |-> Or(fullName, Sentinel),
              playerId |-> Or(playerIdText, Sentinel),
              playerState |-> Or(state, Sentinel),
              regularRating |-> Or(ratings[RegularRating], Sentinel),
              quickRating |-> Or(ratings[QuickRating], Sentinel),
              blitzRating |-> Or(ratings[BlitzRating], Sentinel),
              expirationDt |-> Or(expirationDate, Sentinel)]

(***************************************************************************)
(* new Date(text).getTime(), in days.  The date-only ISO form YYYY-MM-DD   *)
(* is UTC midnight of that day (V8 accepts days 1..31 and lets MakeDay     *)
(* carry them over); a text without any digit is an Invalid Date, whose    *)
(* time value is NaN.  The texts of the model are of these two kinds.      *)
(***************************************************************************)
Digits == <<"0", "1", "2", "3", "4", "5", "6", "7", "8", "9">>
IsDigit(c) == \E d \in 1..Len(Digits) : Digits[d] = c
DigitVal(c) == (CHOOSE d \in 1..Len(Digits) : Digits[d] = c) - 1

RECURSIVE Number(_)
Number(s) ==
    IF s = << >> THEN 0
    ELSE Number(SubSeq(s, 1, Len(s) - 1)) * 10 + DigitVal(s[Len(s)])

\* days from 1970-01-01 to the civil date y-m-d (proleptic Gregorian)
DaysFromCivil(y, m, d) ==
    LET yy == IF m <= 2 THEN y - 1 ELSE y
        era == yy \div 400
        yoe == yy - era * 400
        mp == IF m > 2 THEN m - 3 ELSE m + 9
        doy == (153 * mp + 2) \div 5 + d - 1
        doe == yoe * 365 + yoe \div 4 - yoe \div 100 + doy
    IN  era * 146097 + doe - 719468

IsIsoDate(s) ==
    /\ Len(s) = 10
    /\ s[5] = "-" /\ s[8] = "-"
    /\ \A i \in {1, 2, 3, 4, 6, 7, 9, 10} : IsDigit(s[i])
    /\ Number(SubSeq(s, 6, 7)) \in 1..12
    /\ Number(SubSeq(s, 9, 10)) \in 1..31

DateParse(s) ==
    IF IsIsoDate(s)
    THEN Num(DaysFromCivil(Number(SubSeq(s, 1, 4)), Number(SubSeq(s, 6, 7)),
                           Number(SubSeq(s, 9, 10))))
    ELSE NaN

\* a < b on numbers: false when either side is NaN
Less(a, b) == IsNum(a) /\ IsNum(b) /\ a[2] < b[2]
\* a - b on numbers: NaN when either side is NaN
Minus(a, b) == IF IsNum(a) /\ IsNum(b) THEN Num(a[2] - b[2]) ELSE NaN

(***************************************************************************)
(* getMemberInformation: the membership status                             *)
(***************************************************************************)
\* a variant of Expired that tests !(new Date() < new Date(expirationDt))
ExpiredBug(expirationDt, newDate) ==
    IF Truthy(expirationDt)
    THEN ~Less(Num(newDate), DateParse(expirationDt))
    ELSE FALSE
\* line 133: chessInfo.expirationDt ? new Date(expirationDt) < new Date() : false
Expired(expirationDt, newDate) ==
    IF Truthy(expirationDt)
    THEN Less(DateParse(expirationDt), Num(newDate))
    ELSE FALSE

\* line 134: expirationDt ? new Date(expirationDt).getTime() - Date.now() : null
ExpiresIn(expirationDt, dateNow) ==
    IF Truthy(expirationDt)
    THEN Minus(DateParse(expirationDt), Num(dateNow))
    ELSE Null

PlayerStatusOf(info, newDate, dateNow) ==
    [expired |-> Expired(info.expirationDt, newDate),
     expiresIn |-> ExpiresIn(info.expirationDt, dateNow)]

(***************************************************************************)
(* determineEligibility                                                    *)
(***************************************************************************)
Verdict(e, r) == [eligible |-> e, reason |-> r]

\* a variant that tests the expiry before the sentinel id
determineEligibilityOrderBug(requestedId, playerInfo, status) ==
    IF status.expired THEN Verdict(FALSE, "player_expired")
    ELSE IF playerInfo.playerId = Sentinel
    THEN Verdict(FALSE, "player_not_found")
    ELSE IF requestedId # playerInfo.playerId
    THEN Verdict(FALSE, "player_invalid")
    ELSE IF \/ playerInfo.playerName = Sentinel
            \/ playerInfo.regularRating = Sentinel
            \/ playerInfo.expirationDt = Sentinel
    THEN Verdict(FALSE, "player_insufficient_info")
    ELSE Verdict(TRUE, "player_valid")

\* a variant that also requires quickRating
determineEligibilityQuickBug(requestedId, playerInfo, status) ==
    IF playerInfo.playerId = Sentinel
    THEN Verdict(FALSE, "player_not_found")
    ELSE IF status.expired THEN Verdict(FALSE, "player_expired")
    ELSE IF requestedId # playerInfo.playerId
    THEN Verdict(FALSE, "player_invalid")
    ELSE IF \/ playerInfo.playerName = Sentinel
            \/ playerInfo.regularRating = Sentinel
            \/ playerInfo.quickRating = Sentinel
            \/ playerInfo.expirationDt = Sentinel
    THEN Verdict(FALSE, "player_insufficient_info")
    ELSE Verdict(TRUE, "player_valid")

\* lines 147-190
determineEligibility(requestedId, playerInfo, status) ==
    IF playerInfo.playerId = Sentinel
    THEN Verdict(FALSE, "player_not_found")
    ELSE IF status.expired THEN Verdict(FALSE, "player_expired")
    ELSE IF requestedId # playerInfo.playerId
    THEN Verdict(FALSE, "player_invalid")
    ELSE IF \/ playerInfo.playerName = Sentinel
            \/ playerInfo.regularRating = Sentinel
            \/ playerInfo.expirationDt = Sentinel
    THEN Verdict(FALSE, "player_insufficient_info")
    ELSE Verdict(TRUE, "player_valid")

(***************************************************************************)
(* Inputs                                                                  *)
(***************************************************************************)
\* the longest list of table rows of a page
MaxRows == 2

Banners ==
    {<< >>,
     <<" ">> \o ErrorText \o <<"\n">>,
     CouldNotText \o <<".">>,
     <<"N", "o", "t", "e">>}

Headers ==
    {<< >>,
     <<"1", "2", ":", " ", "A", "l">>,
     <<"1", "2">>,
     <<"1", "2", ":", " ", "A", "l", ":", " ", "J", "r">>,
     <<":", " ", "A", "l">>,
     <<"1", "2", ":", " ">>}

RowSet ==
    {[cells |-> 2, label |-> <<" ">> \o RegularRating \o <<"\n">>,
      bold |-> <<"1", "5", "0", "0", " ", "(", "1", "2", ")">>],
     [cells |-> 2, label |-> RegularRating,
      bold |-> <<" ", "1", "4", "0", "0", "\t", "(", "P", "5", ")">>],
     [cells |-> 2, label |-> QuickRating, bold |-> << >>],
     [cells |-> 3, label |-> BlitzRating, bold |-> <<"1", "3", "0", "0", " ">>],
     [cells |-> 1, label |-> RegularRating, bold |-> << >>],
     [cells |-> 2, label |-> QuickRating \o <<"s">>,
      bold |-> <<"1", "1", "0", "0">>]}

RECURSIVE SeqsUpTo(_, _)
SeqsUpTo(S, n) ==
    IF n = 0 THEN {<< >>}
    ELSE LET shorter == SeqsUpTo(S, n - 1)
         IN  shorter \cup {Append(q, x) : q \in shorter, x \in S}

States ==
    {<< >>,
     <<"S", "t", "a", "t", "e", "\n", "N", "Y">>,
     <<"N", "Y">>}

Expiries ==
    {<< >>,
     <<" ", "2", "0", "2", "4", "-", "0", "1", "-", "0", "2", "\n">>,
     <<"2", "0", "9", "9", "-", "0", "1", "-", "0", "1">>,
     <<"N", "A">>}

Pages ==
    [banner : Banners, header : Headers, rows : SeqsUpTo(RowSet, MaxRows),
     state : States, expiry : Expiries]

\* the pages the upstream serves in the handler's runs: the longest list of
\* table rows among them
MaxBodyRows == 1
Bodies == {page \in Pages : Len(page.rows) <= MaxBodyRows}

\* the instants the clock may show: around 2024-01-02
Instants == {DaysFromCivil(2024, 1, 1), DaysFromCivil(2024, 1, 2),
             DaysFromCivil(2024, 1, 3)}

\* what url.searchParams.get('memberId') may return
MemberIds ==
    {Null, << >>, <<" ">>, <<"\t", " ">>, <<"1", "2">>, <<"3", "4">>}

(***************************************************************************)
(* The fetch handler                                                       *)
(***************************************************************************)
NoInfo == [f \in Fields |-> Undefined]
NoStatus == [expired |-> FALSE, expiresIn |-> Undefined]
NoVerdict == Verdict(FALSE, "unset")
NoResponse == [status |-> 0, contentType |-> "unset", body |-> Undefined]

\* JSON.stringify of { id, eligibility, data }: a property whose value is
\* undefined is left out
JSONStringify(memberInfo) ==
    [id |-> memberInfo.id,
     eligibility |-> memberInfo.eligibility,
     data |-> [f \in {g \in DOMAIN memberInfo.data :
                        memberInfo.data[g] # Undefined} |-> memberInfo.data[f]]]

\* new Response(JSON.stringify(memberInfo), { status: 200, headers: ... })
JsonResponse(memberInfo) ==
    [status |-> 200, contentType |-> "application/json",
     body |-> JSONStringify(memberInfo)]

\* a variant of IsMissingId that does not trim
IsMissingIdBug(memberId) == ~Truthy(memberId)
\* line 72: !id || id.trim().length === 0
IsMissingId(memberId) == ~Truthy(memberId) \/ Len(Trim(memberId)) = 0

MissingIdInfo ==
    [id |-> Null, eligibility |-> Verdict(FALSE, "player_missing_id"),
     data |-> EmptyUSChessInfo]

\* a variant of ErrorResponse that reports the exception as a server error
ErrorResponseBug(error) ==
    [status |-> 500, contentType |-> "text/plain", body |-> error]
\* the catch block of lines 98-113
ErrorResponse(error) ==
    JsonResponse([id |-> Null, eligibility |-> Verdict(FALSE, "error"),
                  data |-> EmptyUSChessInfo])

FailedMessage == "Failed to fetch member information for ID"

Init ==
    /\ pc = "idle"
    /\ id = Undefined
    /\ htmlContent = Undefined
    /\ chessInfo = NoInfo
    /\ playerStatus = NoStatus
    /\ now = << >>
    /\ eligibility = NoVerdict
    /\ otherInfo = NoInfo
    /\ otherEligibility = NoVerdict
    /\ response = NoResponse
    /\ outcome = "pending"
    /\ performed = {}
    /\ thrown = "none"

\* an exception raised inside the try block reaches the catch block
Caught(error) ==
    /\ thrown' = error
    /\ response' = ErrorResponse(error)
    /\ outcome' = "resolved"
    /\ pc' = "done"

\* fetch, lines 68-91, and getMemberInformation up to `await fetch(...)`
Fetch(memberId) ==
    /\ pc = "idle"
    /\ id' = memberId
    /\ IF IsMissingId(memberId)
       THEN /\ response' = JsonResponse(MissingIdInfo)
            /\ outcome' = "resolved"
            /\ pc' = "done"
            /\ UNCHANGED performed
       ELSE /\ performed' = performed \cup {"retrieval"}
            /\ pc' = "await_fetch"
            /\ UNCHANGED <<response, outcome>>
    /\ UNCHANGED <<htmlContent, chessInfo, playerStatus, now, eligibility,
                   otherInfo, otherEligibility, thrown>>

\* the network call of line 122 rejects
UpstreamRejects ==
    /\ pc = "await_fetch"
    /\ Caught("fetch failed")
    /\ UNCHANGED <<id, htmlContent, chessInfo, playerStatus, now, eligibility,
                   otherInfo, otherEligibility, performed>>

\* line 122 resolves; lines 124-128 up to `await response.text()`
UpstreamResponds(ok) ==
    /\ pc = "await_fetch"
    /\ IF ~ok
       THEN Caught(FailedMessage)
       ELSE /\ pc' = "await_text"
            /\ UNCHANGED <<response, outcome, thrown>>
    /\ UNCHANGED <<id, htmlContent, chessInfo, playerStatus, now, eligibility,
                   otherInfo, otherEligibility, performed>>

\* reading the body (line 128) rejects
BodyRejects ==
    /\ pc = "await_text"
    /\ Caught("body read failed")
    /\ UNCHANGED <<id, htmlContent, chessInfo, playerStatus, now, eligibility,
                   otherInfo, otherEligibility, performed>>

\* line 128 resolves, but the extraction of line 130 raises inside cheerio
ExtractionRaises ==
    /\ pc = "await_text"
    /\ \E html \in Bodies : htmlContent' = html
    /\ performed' = performed \cup {"extraction"}
    /\ Caught("cheerio failed")
    /\ UNCHANGED <<id, chessInfo, playerStatus, now, eligibility, otherInfo,
                   otherEligibility>>

\* line 128 resolves; lines 130-144 and the response of lines 92-97
BodyArrives ==
    /\ pc = "await_text"
    /\ \E html \in Bodies, newDate \in Instants, dateNow \in Instants :
          /\ newDate <= dateNow
          /\ htmlContent' = html
          /\ now' = <<newDate, dateNow>>
          /\ chessInfo' = extractChessInfo(html)
          /\ playerStatus' = PlayerStatusOf(chessInfo', newDate, dateNow)
    /\ eligibility' = determineEligibility(id, chessInfo', playerStatus')
    /\ performed' = performed \cup {"extraction", "eligibility"}
    /\ response' = JsonResponse([id |-> id, eligibility |-> eligibility',
                                 data |-> chessInfo'])
    /\ outcome' = "resolved"
    /\ pc' = "done"
    /\ UNCHANGED <<id, otherInfo, otherEligibility, thrown>>

\* the worker takes the next request
NextRequest ==
    /\ pc = "done"
    /\ pc' = "idle"
    /\ id' = Undefined
    /\ htmlContent' = Undefined
    /\ chessInfo' = NoInfo
    /\ playerStatus' = NoStatus
    /\ now' = << >>
    /\ eligibility' = NoVerdict
    /\ response' = NoResponse
    /\ outcome' = "pending"
    /\ performed' = {}
    /\ thrown' = "none"
    /\ UNCHANGED <<otherInfo, otherEligibility>>

Next ==
    \/ \E memberId \in MemberIds : Fetch(memberId)
    \/ UpstreamRejects
    \/ \E ok \in BOOLEAN : UpstreamResponds(ok)
    \/ BodyRejects
    \/ ExtractionRaises
    \/ BodyArrives
    \/ NextRequest

Spec == Init /\ [][Next]_vars

(***************************************************************************)
(* extractChessInfo on its own: every page of the model is an input        *)
(***************************************************************************)
InitExtract ==
    /\ pc = "extract_call"
    /\ htmlContent \in Pages
    /\ id = Undefined
    /\ chessInfo = NoInfo
    /\ playerStatus = NoStatus
    /\ now = << >>
    /\ eligibility = NoVerdict
    /\ otherInfo = NoInfo
    /\ otherEligibility = NoVerdict
    /\ response = NoResponse
    /\ outcome = "pending"
    /\ performed = {}
    /\ thrown = "none"

ExtractCall ==
    /\ pc = "extract_call"
    /\ chessInfo' = extractChessInfo(htmlContent)
    /\ performed' = {"extraction"}
    /\ pc' = "extract_return"
    /\ UNCHANGED <<id, htmlContent, playerStatus, now, eligibility, otherInfo,
                   otherEligibility, response, outcome, thrown>>

NextExtract == ExtractCall

SpecExtract == InitExtract /\ [][NextExtract]_vars

(***************************************************************************)
(* determineEligibility on its own, on two records at a time               *)
(***************************************************************************)
RequestedIds == {<<"1", "2">>, <<"3", "4">>, Sentinel}

Infos ==
    [playerName : {Sentinel, <<"A", "l">>},
     playerId : {Sentinel, <<"1", "2">>, <<"3", "4">>},
     playerState : {Sentinel, <<"N", "Y">>},
     regularRating : {Sentinel, <<"1", "5", "0", "0">>},
     quickRating : {Sentinel, <<"1", "4", "5", "0">>},
     blitzRating : {Sentinel, <<"1", "3", "0", "0">>},
     expirationDt : {Sentinel,
                     <<"2", "0", "9", "9", "-", "0", "1", "-", "0", "1">>}]

Statuses == [expired : BOOLEAN, expiresIn : {NaN, Num(1)}]

CriticalFields == {"playerId", "playerName", "regularRating", "expirationDt"}

AgreeOnCritical(a, b) == \A f \in CriticalFields : a[f] = b[f]

InitEligibility ==
    /\ pc = "eligibility_call"
    /\ id \in RequestedIds
    /\ chessInfo \in Infos
    /\ otherInfo \in {info \in Infos : AgreeOnCritical(chessInfo, info)}
    /\ playerStatus \in Statuses
    /\ htmlContent = Undefined
    /\ now = << >>
    /\ eligibility = NoVerdict
    /\ otherEligibility = NoVerdict
    /\ response = NoResponse
    /\ outcome = "pending"
    /\ performed = {}
    /\ thrown = "none"

EligibilityCall ==
    /\ pc = "eligibility_call"
    /\ eligibility' = determineEligibility(id, chessInfo, playerStatus)
    /\ otherEligibility' = determineEligibility(id, otherInfo, playerStatus)
    /\ performed' = {"eligibility"}
    /\ pc' = "eligibility_return"
    /\ UNCHANGED <<id, htmlContent, chessInfo, playerStatus, now, otherInfo,
                   response, outcome, thrown>>

NextEligibility == EligibilityCall

SpecEligibility == InitEligibility /\ [][NextEligibility]_vars

(***************************************************************************)
(* Properties                                                              *)
(***************************************************************************)
AllSentinel == [f \in Fields |-> Sentinel]

\* a memberId that is missing, empty or made of white space only
Blank(memberId) ==
    \/ memberId = Null
    \/ \A i \in 1..Len(memberId) : memberId[i] \in WhiteSpace

\* C1: determineEligibility returns the result of the first rule that
\* matches, in the order not found, expired, invalid, insufficient info,
\* valid.
C1_FirstMatchingRule ==
    pc = "eligibility_return" =>
        LET notFound == chessInfo.playerId = Sentinel
            expired == playerStatus.expired
            mismatch == id # chessInfo.playerId
            incomplete == \E f \in {"playerName", "regularRating", "expirationDt"} :
                              chessInfo[f] = Sentinel
        IN  /\ notFound =>
                eligibility = [eligible |-> FALSE, reason |-> "player_not_found"]
            /\ ~notFound /\ expired =>
                eligibility = [eligible |-> FALSE, reason |-> "player_expired"]
            /\ ~notFound /\ ~expired /\ mismatch =>
                eligibility = [eligible |-> FALSE, reason |-> "player_invalid"]
            /\ ~notFound /\ ~expired /\ ~mismatch /\ incomplete =>
                eligibility =
                    [eligible |-> FALSE, reason |-> "player_insufficient_info"]
            /\ ~notFound /\ ~expired /\ ~mismatch /\ ~incomplete =>
                eligibility = [eligible |-> TRUE, reason |-> "player_valid"]

\* a record with the sentinel id, expired, and not the requested id
C1_Witness ==
    /\ pc = "eligibility_return"
    /\ chessInfo.playerId = Sentinel
    /\ playerStatus.expired
    /\ id # chessInfo.playerId
    /\ eligibility.reason = "player_not_found"

\* C2: a missing, empty or white-space memberId is answered with the
\* player_missing_id result and the all-sentinel record, and the request
\* runs neither retrieval nor extraction nor the eligibility evaluation.
C2_MissingId ==
    (id # Undefined /\ Blank(id)) =>
        /\ pc = "done"
        /\ outcome = "resolved"
        /\ performed = {}
        /\ response.body =
               [id |-> Null,
                eligibility |-> [eligible |-> FALSE, reason |-> "player_missing_id"],
                data |-> AllSentinel]

C2_Witness ==
    /\ pc = "done"
    /\ id = <<"\t", " ">>
    /\ performed = {}
    /\ response.body.eligibility.reason = "player_missing_id"

\* C3: when retrieval fails or extraction raises, the handler resolves with
\* a status-200 JSON response holding the error result and the all-sentinel
\* record; nothing of the exception is in it, and after a non-OK upstream
\* response neither extraction nor the eligibility evaluation has run.
C3_ErrorAbsorbed ==
    (pc = "done" /\ ~Blank(id) /\ thrown # "none") =>
        /\ outcome = "resolved"
        /\ response.status = 200
        /\ response.contentType = "application/json"
        /\ response.body =
               [id |-> Null,
                eligibility |-> [eligible |-> FALSE, reason |-> "error"],
                data |-> AllSentinel]
        /\ thrown = FailedMessage => performed = {"retrieval"}

C3_Witness ==
    /\ pc = "done"
    /\ thrown = FailedMessage
    /\ response.status = 200
    /\ response.body.eligibility.reason = "error"

\* C4: every field of the record extractChessInfo returns is a non-empty
\* string or the sentinel; none is null, undefined or the empty string.
C4_FieldsPopulated ==
    pc = "extract_return" =>
        \A f \in Fields : chessInfo[f] \notin {Undefined, Null, << >>}

\* the empty input: nothing to scrape, every field is the sentinel
C4_Witness ==
    /\ pc = "extract_return"
    /\ htmlContent.banner = << >> /\ htmlContent.header = << >>
    /\ htmlContent.rows = << >> /\ htmlContent.state = << >>
    /\ htmlContent.expiry = << >>
    /\ chessInfo = AllSentinel

\* C5: a banner containing 'Error' or 'Could not retrieve data' gives the
\* all-sentinel record whatever else the page holds.
C5_ErrorBanner ==
    (/\ pc = "extract_return"
     /\ \/ Includes(htmlContent.banner, ErrorText)
        \/ Includes(htmlContent.banner, CouldNotText)) =>
        chessInfo = AllSentinel

\* a banner page that also has a header, a rating row, a state and a date
C5_Witness ==
    /\ pc = "extract_return"
    /\ Includes(htmlContent.banner, CouldNotText)
    /\ htmlContent.header = <<"1", "2", ":", " ", "A", "l">>
    /\ Len(htmlContent.rows) > 0 /\ htmlContent.rows[1].cells = 2
    /\ htmlContent.state # << >> /\ htmlContent.expiry # << >>
    /\ chessInfo = AllSentinel

\* C6: expiresIn is null when the expiration date is the sentinel or does not
\* parse, and otherwise the parsed instant minus the evaluation instant.
C6_ExpiresIn ==
    (pc = "done" /\ "eligibility" \in performed) =>
        playerStatus.expiresIn =
            IF chessInfo.expirationDt = Sentinel
               \/ ~IsNum(DateParse(chessInfo.expirationDt))
            THEN Null
            ELSE Num(DateParse(chessInfo.expirationDt)[2] - now[2])

\* C7: expired is true exactly when the expiration date parses to an instant
\* before the evaluation instant; with the sentinel or an unparsable date it
\* is false and the lookup is not reported as player_expired.
C7_Expired ==
    (pc = "done" /\ "eligibility" \in performed) =>
        LET parsed == DateParse(chessInfo.expirationDt)
        IN  /\ playerStatus.expired <=> (IsNum(parsed) /\ parsed[2] < now[1])
            /\ (chessInfo.expirationDt = Sentinel \/ ~IsNum(parsed)) =>
                   /\ ~playerStatus.expired
                   /\ eligibility.reason # "player_expired"
                   /\ response.body.eligibility.reason # "player_expired"

C7_Witness ==
    /\ pc = "done"
    /\ "eligibility" \in performed
    /\ IsNum(DateParse(chessInfo.expirationDt))
    /\ DateParse(chessInfo.expirationDt)[2] < now[1]
    /\ playerStatus.expired
    /\ eligibility.reason = "player_expired"

\* C8: two evaluations with the same requested id and status, on records
\* that agree on playerId, playerName, regularRating and expirationDate,
\* return the same verdict whatever playerState, quickRating and blitzRating
\* are.
C8_NonCriticalFields ==
    (pc = "eligibility_return" /\ AgreeOnCritical(chessInfo, otherInfo)) =>
        eligibility = otherEligibility

\* a valid record and one that differs from it in all three other fields
C8_Witness ==
    /\ pc = "eligibility_return"
    /\ AgreeOnCritical(chessInfo, otherInfo)
    /\ \A f \in Fields \ CriticalFields :
           chessInfo[f] # Sentinel /\ otherInfo[f] = Sentinel
    /\ eligibility.reason = "player_valid"
    /\ otherEligibility.reason = "player_valid"

\* the text before / after the first occurrence of sep in s
BeforeFirst(s, sep) == SubSeq(s, 1, Min(Occurrences(s, sep)) - 1)
AfterFirst(s, sep) == SubSeq(s, Min(Occurrences(s, sep)) + Len(sep), Len(s))

\* C9: without an error banner, playerId is the header text before the first
\* ': ' and playerName the whole text after it; a half that is missing or
\* empty is the sentinel.
C9_HeaderSplit ==
    (/\ pc = "extract_return"
     /\ ~Includes(htmlContent.banner, ErrorText)
     /\ ~Includes(htmlContent.banner, CouldNotText)) =>
        LET header == htmlContent.header
        IN  IF Includes(header, ColonSpace)
            THEN /\ chessInfo.playerId =
                        IF BeforeFirst(header, ColonSpace) = << >> THEN Sentinel
                        ELSE BeforeFirst(header, ColonSpace)
                 /\ chessInfo.playerName =
                        IF AfterFirst(header, ColonSpace) = << >> THEN Sentinel
                        ELSE AfterFirst(header, ColonSpace)
            ELSE /\ chessInfo.playerId = IF header = << >> THEN Sentinel ELSE header
                 /\ chessInfo.playerName = Sentinel

\* the first white-space-delimited token of a trimmed text
RECURSIVE FirstToken(_)
FirstToken(s) ==
    IF s = << >> \/ Head(s) \in WhiteSpace THEN << >>
    ELSE <<Head(s)>> \o FirstToken(Tail(s))

\* the rows with two cells or more whose first cell is the label
RowsLabelled(rows, label) ==
    {i \in 1..Len(rows) : rows[i].cells >= 2 /\ Trim(rows[i].label) = label}

TokenOfLastRow(rows, label) ==
    IF RowsLabelled(rows, label) = {} THEN << >>
    ELSE LET last == CHOOSE i \in RowsLabelled(rows, label) :
                         \A j \in RowsLabelled(rows, label) : j <= i
         IN  FirstToken(Trim(rows[last].bold))

\* C10: each rating is the first white-space-delimited token of the trimmed
\* bold text of the second cell of the last row with that label, and the
\* sentinel when there is no such row or the token is empty.
C10_RatingToken ==
    (/\ pc = "extract_return"
     /\ ~Includes(htmlContent.banner, ErrorText)
     /\ ~Includes(htmlContent.banner, CouldNotText)) =>
        LET Expected(label) ==
                IF TokenOfLastRow(htmlContent.rows, label) = << >> THEN Sentinel
                ELSE TokenOfLastRow(htmlContent.rows, label)
        IN  /\ chessInfo.regularRating = Expected(RegularRating)
            /\ chessInfo.quickRating = Expected(QuickRating)
            /\ chessInfo.blitzRating = Expected(BlitzRating)

====
